---- MODULE Spec2Model ----
(***************************************************************************)
(* Model of the Mahony attitude filter of go-ahrs (src/mahony.go) and of   *)
(* the invSqrt utility.  A float64 is modelled as a decimal fixed-point    *)
(* number with SCALE units per 1.0 and a largest finite magnitude FMax,    *)
(* plus the three IEEE-754 special values.  Every arithmetic operation     *)
(* rounds to the nearest representable value, overflows to an infinity,    *)
(* underflows to zero and propagates NaN, as the float64 operations of the *)
(* source do (at a much coarser precision and a much smaller range).       *)
(* Signed zeros are not distinguished: the source never divides by a       *)
(* negative zero (sqrt of a sum of squares, and the sample frequency).     *)
(***************************************************************************)
EXTENDS Integers, Sequences, FiniteSets, TLC

\* ------------------------------------------------------------ float64 --

SCALE == 1000

FMax == 1000000

PInf == FMax + 1

NInf == 0 - (FMax + 1)

NaN == FMax + 2

IsNaN(x) == x = NaN

IsFinite(x) == x >= 0 - FMax /\ x <= FMax

Abs(n) == IF n < 0 THEN 0 - n ELSE n

Sign(n) == IF n < 0 THEN 0 - 1 ELSE IF n > 0 THEN 1 ELSE 0

\* n / d rounded to the nearest integer, for n >= 0 and d > 0
RoundDiv(n, d) == IF 2 * (n % d) >= d THEN (n \div d) + 1 ELSE n \div d

\* the float nearest to an exact integer result, infinite beyond the range
Ovf(n) == IF n > FMax THEN PInf ELSE IF n < 0 - FMax THEN NInf ELSE n

\* the float64 literal n/d (n >= 0, d > 0)
F(n, d) == RoundDiv(n * SCALE, d)

Zero == F(0, 1)

Half == F(5, 10)

One == F(1, 1)

Two == F(2, 1)

Neg(a) == IF IsNaN(a) THEN NaN ELSE 0 - a

Add(a, b) ==
    IF IsNaN(a) \/ IsNaN(b) THEN NaN
    ELSE IF a = PInf THEN (IF b = NInf THEN NaN ELSE PInf)
    ELSE IF a = NInf THEN (IF b = PInf THEN NaN ELSE NInf)
    ELSE IF b = PInf \/ b = NInf THEN b
    ELSE Ovf(a + b)

Sub(a, b) == Add(a, Neg(b))

Mul(a, b) ==
    IF IsNaN(a) \/ IsNaN(b) THEN NaN
    ELSE IF ~IsFinite(a) \/ ~IsFinite(b)
         THEN (IF a = 0 \/ b = 0 THEN NaN
               ELSE IF Sign(a) * Sign(b) > 0 THEN PInf ELSE NInf)
    ELSE LET x == Abs(a)
             y == Abs(b)
             p == (x \div SCALE) * y + RoundDiv((x % SCALE) * y, SCALE)
         IN  Ovf(Sign(a) * Sign(b) * p)

Div(a, b) ==
    IF IsNaN(a) \/ IsNaN(b) THEN NaN
    ELSE IF ~IsFinite(b)
         THEN (IF IsFinite(a) THEN 0 ELSE NaN)
    ELSE IF ~IsFinite(a)
         THEN (IF Sign(a) * (IF b < 0 THEN 0 - 1 ELSE 1) > 0 THEN PInf ELSE NInf)
    ELSE IF b = 0
         THEN (IF a = 0 THEN NaN ELSE IF a > 0 THEN PInf ELSE NInf)
    ELSE Ovf(Sign(a) * Sign(b) * RoundDiv(Abs(a) * SCALE, Abs(b)))

RECURSIVE ISqrtB(_, _, _)
\* the largest r in lo..hi with r*r <= n
ISqrtB(n, lo, hi) ==
    IF lo >= hi THEN lo
    ELSE LET mid == (lo + hi + 1) \div 2
         IN  IF mid * mid <= n THEN ISqrtB(n, mid, hi) ELSE ISqrtB(n, lo, mid - 1)

\* math.Sqrt: correctly rounded, NaN below zero, +Inf at +Inf
Sqrt(x) ==
    IF IsNaN(x) \/ x < 0 THEN NaN
    ELSE IF x = PInf THEN PInf
    ELSE LET n == x * SCALE
             r == ISqrtB(n, 0, IF n < 46340 THEN n ELSE 46340)
         IN  IF n - r * r > r THEN r + 1 ELSE r

\* the comparisons of the source: false whenever an operand is NaN
FEq(a, b) == ~IsNaN(a) /\ ~IsNaN(b) /\ a = b

FGt(a, b) == ~IsNaN(a) /\ ~IsNaN(b) /\ a > b

invSqrt(x) == Div(One, Sqrt(x))

\* ------------------------------------------------------- Mahony filter --

MahonyDefaultKp == F(2, 10)

MahonyDefaultKi == F(1, 10)

\* NewMahony with an unkeyed composite literal one field short: sampleFreq lands
\* in integralFBx
NewMahony_Unkeyed(kp, ki, sampleFreq) ==
    [twoKp |-> Mul(Two, kp),
     twoKi |-> Mul(Two, ki),
     integralFBx |-> sampleFreq, integralFBy |-> Zero, integralFBz |-> Zero,
     SampleFreq |-> sampleFreq,
     Quaternions |-> <<One, Zero, Zero, Zero>>]

\* NewMahony: the fields the composite literal omits are zero
NewMahony(kp, ki, sampleFreq) ==
    [twoKp |-> Mul(Two, kp),
     twoKi |-> Mul(Two, ki),
     integralFBx |-> Zero, integralFBy |-> Zero, integralFBz |-> Zero,
     SampleFreq |-> sampleFreq,
     Quaternions |-> <<One, Zero, Zero, Zero>>]

\* NewDefaultMahony storing the default gains themselves, not twice the gains
NewDefaultMahony_Undoubled(sampleFreq) ==
    [twoKp |-> MahonyDefaultKp,
     twoKi |-> MahonyDefaultKi,
     integralFBx |-> Zero, integralFBy |-> Zero, integralFBz |-> Zero,
     SampleFreq |-> sampleFreq,
     Quaternions |-> <<One, Zero, Zero, Zero>>]

NewDefaultMahony(sampleFreq) ==
    [twoKp |-> Mul(Two, MahonyDefaultKp),
     twoKi |-> Mul(Two, MahonyDefaultKi),
     integralFBx |-> Zero, integralFBy |-> Zero, integralFBz |-> Zero,
     SampleFreq |-> sampleFreq,
     Quaternions |-> <<One, Zero, Zero, Zero>>]

\* the guard of the feedback branch: !(ax == 0.0 && ay == 0.0 && az == 0.0)
AccelValid(a) == ~(FEq(a[1], Zero) /\ FEq(a[2], Zero) /\ FEq(a[3], Zero))

\* recipNorm = invSqrt(x*x + y*y + z*z); x *= recipNorm; ...
Normalise3(v) ==
    LET recipNorm == invSqrt(Add(Add(Mul(v[1], v[1]), Mul(v[2], v[2])), Mul(v[3], v[3])))
    IN  <<Mul(v[1], recipNorm), Mul(v[2], recipNorm), Mul(v[3], recipNorm)>>

\* the integral feedback with the period added to the scaled error, not
\* multiplied into it
IntegralFeedback_PeriodAdded(twoKi, sampleFreq, fb, halfe, g) ==
    IF FGt(twoKi, Zero)
    THEN LET nfb == <<Add(fb[1], Add(Mul(twoKi, halfe[1]), Div(One, sampleFreq))),
                      Add(fb[2], Add(Mul(twoKi, halfe[2]), Div(One, sampleFreq))),
                      Add(fb[3], Add(Mul(twoKi, halfe[3]), Div(One, sampleFreq)))>>
         IN  [fb |-> nfb,
              g |-> <<Add(g[1], nfb[1]), Add(g[2], nfb[2]), Add(g[3], nfb[3])>>]
    ELSE [fb |-> <<Zero, Zero, Zero>>, g |-> g]

\* the integral feedback: the local accumulator fb and the gyro rate g after it
IntegralFeedback(twoKi, sampleFreq, fb, halfe, g) ==
    IF FGt(twoKi, Zero)
    THEN LET nfb == <<Add(fb[1], Mul(Mul(twoKi, halfe[1]), Div(One, sampleFreq))),
                      Add(fb[2], Mul(Mul(twoKi, halfe[2]), Div(One, sampleFreq))),
                      Add(fb[3], Mul(Mul(twoKi, halfe[3]), Div(One, sampleFreq)))>>
         IN  [fb |-> nfb,
              g |-> <<Add(g[1], nfb[1]), Add(g[2], nfb[2]), Add(g[3], nfb[3])>>]
    ELSE [fb |-> <<Zero, Zero, Zero>>, g |-> g]

\* gx += twoKp * halfex; ...
ProportionalFeedback(twoKp, halfe, g) ==
    <<Add(g[1], Mul(twoKp, halfe[1])),
      Add(g[2], Mul(twoKp, halfe[2])),
      Add(g[3], Mul(twoKp, halfe[3]))>>

\* the integration without the temporaries qa, qb, qc: each component is
\* computed from the components already updated
Integrate_InPlace(q, g, sampleFreq) ==
    LET c  == Mul(Half, Div(One, sampleFreq))
        gx == Mul(g[1], c)
        gy == Mul(g[2], c)
        gz == Mul(g[3], c)
        n0 == Add(q[1], Sub(Sub(Mul(Neg(q[2]), gx), Mul(q[3], gy)), Mul(q[4], gz)))
        n1 == Add(q[2], Sub(Add(Mul(n0, gx), Mul(q[3], gz)), Mul(q[4], gy)))
        n2 == Add(q[3], Add(Sub(Mul(n0, gy), Mul(n1, gz)), Mul(q[4], gx)))
        n3 == Add(q[4], Sub(Add(Mul(n0, gz), Mul(n1, gy)), Mul(n2, gx)))
    IN  <<n0, n1, n2, n3>>

\* the rate of change of the quaternion, integrated from the old components
Integrate(q, g, sampleFreq) ==
    LET c  == Mul(Half, Div(One, sampleFreq))
        gx == Mul(g[1], c)
        gy == Mul(g[2], c)
        gz == Mul(g[3], c)
        qa == q[1]
        qb == q[2]
        qc == q[3]
        q3 == q[4]
    IN  <<Add(q[1], Sub(Sub(Mul(Neg(qb), gx), Mul(qc, gy)), Mul(q3, gz))),
          Add(q[2], Sub(Add(Mul(qa, gx), Mul(qc, gz)), Mul(q3, gy))),
          Add(q[3], Add(Sub(Mul(qa, gy), Mul(qb, gz)), Mul(q3, gx))),
          Add(q[4], Sub(Add(Mul(qa, gz), Mul(qb, gy)), Mul(qc, gx)))>>

\* recipNorm = invSqrt(q0*q0 + q1*q1 + q2*q2 + q3*q3); Quaternions[k] = qk * recipNorm
NormaliseQuat(q) ==
    LET recipNorm == invSqrt(Add(Add(Add(Mul(q[1], q[1]), Mul(q[2], q[2])),
                                     Mul(q[3], q[3])), Mul(q[4], q[4])))
    IN  <<Mul(q[1], recipNorm), Mul(q[2], recipNorm),
          Mul(q[3], recipNorm), Mul(q[4], recipNorm)>>

\* the cross product of a measured direction a and an estimated direction v:
\* (ay*vz - az*vy, az*vx - ax*vz, ax*vy - ay*vx)
Cross(a, v) ==
    <<Sub(Mul(a[2], v[3]), Mul(a[3], v[2])),
      Sub(Mul(a[3], v[1]), Mul(a[1], v[3])),
      Sub(Mul(a[1], v[2]), Mul(a[2], v[1]))>>

\* The error term of Update6D: the cross product of the accelerometer reading,
\* normalised, and the estimated direction of gravity halfv
HalfE6D(q, a) ==
    Cross(Normalise3(a),
          <<Sub(Mul(q[2], q[4]), Mul(q[1], q[3])),
            Add(Mul(q[1], q[2]), Mul(q[3], q[4])),
            Add(Sub(Mul(q[1], q[1]), Half), Mul(q[4], q[4]))>>)

\* the auxiliary variables of Update9D
QuatProducts(q) ==
    [q0q0 |-> Mul(q[1], q[1]), q0q1 |-> Mul(q[1], q[2]), q0q2 |-> Mul(q[1], q[3]),
     q0q3 |-> Mul(q[1], q[4]), q1q1 |-> Mul(q[2], q[2]), q1q2 |-> Mul(q[2], q[3]),
     q1q3 |-> Mul(q[2], q[4]), q2q2 |-> Mul(q[3], q[3]), q2q3 |-> Mul(q[3], q[4]),
     q3q3 |-> Mul(q[4], q[4])]

\* the reference direction of the magnetic field, from the products p and the
\* normalised magnetometer reading m
Hx(p, m) ==
    Mul(Two, Add(Add(Mul(m[1], Sub(Sub(Half, p.q2q2), p.q3q3)),
                     Mul(m[2], Sub(p.q1q2, p.q0q3))),
                 Mul(m[3], Add(p.q1q3, p.q0q2))))

Hy(p, m) ==
    Mul(Two, Add(Add(Mul(m[1], Add(p.q1q2, p.q0q3)),
                     Mul(m[2], Sub(Sub(Half, p.q1q1), p.q3q3))),
                 Mul(m[3], Sub(p.q2q3, p.q0q1))))

Bx(hx, hy) == Sqrt(Add(Mul(hx, hx), Mul(hy, hy)))

Bz(p, m) ==
    Mul(Two, Add(Add(Mul(m[1], Sub(p.q1q3, p.q0q2)),
                     Mul(m[2], Add(p.q2q3, p.q0q1))),
                 Mul(m[3], Sub(Sub(Half, p.q1q1), p.q2q2))))

\* the estimated direction of gravity
HalfV(p) ==
    <<Sub(p.q1q3, p.q0q2), Add(p.q0q1, p.q2q3), Add(Sub(p.q0q0, Half), p.q3q3)>>

\* the estimated direction of the magnetic field
HalfW(p, bx, bz) ==
    <<Add(Mul(bx, Sub(Sub(Half, p.q2q2), p.q3q3)), Mul(bz, Sub(p.q1q3, p.q0q2))),
      Add(Mul(bx, Sub(p.q1q2, p.q0q3)), Mul(bz, Add(p.q0q1, p.q2q3))),
      Add(Mul(bx, Add(p.q0q2, p.q1q3)), Mul(bz, Sub(Sub(Half, p.q1q1), p.q2q2)))>>

\* the sum of the cross products of the two measured and estimated directions
SumOfCross(ea, em) == <<Add(ea[1], em[1]), Add(ea[2], em[2]), Add(ea[3], em[3])>>

\* the error term from the normalised readings an and mn
HalfE9DNormalised(p, an, mn) ==
    SumOfCross(Cross(an, HalfV(p)),
               Cross(mn, HalfW(p, Bx(Hx(p, mn), Hy(p, mn)), Bz(p, mn))))

\* The error term of Update9D: both readings normalised, the reference
\* direction of the magnetic field, the estimated directions of gravity and of
\* the field, and the sum of the two cross products
HalfE9D(q, a, mag) ==
    HalfE9DNormalised(QuatProducts(q), Normalise3(a), Normalise3(mag))

\* the update returning the quaternion it read at entry, not the one it stored
Apply_ReturnsOld(m, g, valid, halfe) ==
    LET integralFB == <<m.integralFBx, m.integralFBy, m.integralFBz>>
        ifb == IntegralFeedback(m.twoKi, m.SampleFreq, integralFB, halfe, g)
        gc == IF valid THEN ProportionalFeedback(m.twoKp, halfe, ifb.g) ELSE g
        m2 == [m EXCEPT !.Quaternions =
                  NormaliseQuat(Integrate(m.Quaternions, gc, m.SampleFreq))]
    IN  [m |-> m2,
         ret |-> m.Quaternions,
         corrected |-> valid,
         halfe |-> IF valid THEN halfe ELSE <<Zero, Zero, Zero>>,
         fb |-> IF valid THEN ifb.fb ELSE integralFB]

\* the update with a recovery path: a stored quaternion found NaN at entry is
\* replaced by the identity before the integration
Apply_Restarting(m, g, valid, halfe) ==
    LET integralFB == <<m.integralFBx, m.integralFBy, m.integralFBz>>
        ifb == IntegralFeedback(m.twoKi, m.SampleFreq, integralFB, halfe, g)
        gc == IF valid THEN ProportionalFeedback(m.twoKp, halfe, ifb.g) ELSE g
        q == IF \E k \in 1..4 : IsNaN(m.Quaternions[k])
             THEN <<One, Zero, Zero, Zero>> ELSE m.Quaternions
        m2 == [m EXCEPT !.Quaternions = NormaliseQuat(Integrate(q, gc, m.SampleFreq))]
    IN  [m |-> m2,
         ret |-> m2.Quaternions,
         corrected |-> valid,
         halfe |-> IF valid THEN halfe ELSE <<Zero, Zero, Zero>>,
         fb |-> IF valid THEN ifb.fb ELSE integralFB]

\* What both updates do with the error term: the feedback when the branch is
\* taken (valid), the integration, the normalisation and the store.  Only
\* m.Quaternions is assigned: integralFBx, integralFBy and integralFBz are
\* locals of the call, read from the struct and never written back.  The
\* result is the struct after the call, the value returned, and what the call
\* computed on the way (the branch, the error term, the local accumulator).
Apply(m, g, valid, halfe) ==
    LET integralFB == <<m.integralFBx, m.integralFBy, m.integralFBz>>
        ifb == IntegralFeedback(m.twoKi, m.SampleFreq, integralFB, halfe, g)
        gc == IF valid THEN ProportionalFeedback(m.twoKp, halfe, ifb.g) ELSE g
        m2 == [m EXCEPT !.Quaternions =
                  NormaliseQuat(Integrate(m.Quaternions, gc, m.SampleFreq))]
    IN  [m |-> m2,
         ret |-> m2.Quaternions,
         corrected |-> valid,
         halfe |-> IF valid THEN halfe ELSE <<Zero, Zero, Zero>>,
         fb |-> IF valid THEN ifb.fb ELSE integralFB]

Update6D(m, g, a) == Apply(m, g, AccelValid(a), HalfE6D(m.Quaternions, a))

\* Update9D with a magnetometer check of its own beside the accelerometer's
Update9D_MagGuarded(m, g, a, mag) ==
    Apply(m, g, AccelValid(a) /\ AccelValid(mag), HalfE9D(m.Quaternions, a, mag))

Update9D(m, g, a, mag) == Apply(m, g, AccelValid(a), HalfE9D(m.Quaternions, a, mag))

\* -------------------------------------------------------- state machine --

\* the largest number of update calls in a behaviour
MaxCalls == 2

VARIABLES
    filters,   \* the Mahony structs the caller holds, by instance
    ctor,      \* the constructor call that made each instance
    last,      \* the latest update call: its instance, inputs and results
    calls,     \* the number of update calls so far
    hist       \* the inputs each instance has received (kept by SpecPair only)

vars == <<filters, ctor, last, calls, hist>>

\* a reading whose square underflows to zero, and a rate whose square overflows
\* at the lower sample frequency
Tiny == F(1, 1000)

Huge == F(100, 1)

ZeroVec == <<Zero, Zero, Zero>>

GyroSet ==
    {ZeroVec, <<Zero, Zero, One>>, <<Huge, Zero, Zero>>, <<Zero, NaN, Zero>>}

AccSet ==
    {ZeroVec, <<Zero, Zero, F(98, 10)>>, <<Zero, One, Zero>>, <<Tiny, Zero, Zero>>}

MagSet == {ZeroVec, <<One, Zero, Zero>>, <<Zero, F(6, 10), F(8, 10)>>}

\* the constructor calls of a behaviour
Ctors ==
    {[kind |-> "NewMahony", kp |-> c[1], ki |-> c[2], sampleFreq |-> c[3]] :
        c \in {<<F(2, 10), F(1, 10), F(100, 1)>>,
               <<F(5, 10), Zero, One>>,
               <<F(5, 10), F(5, 10), One>>,
               <<F(2, 10), F(1, 10), Zero>>}}
    \cup
    {[kind |-> "NewDefaultMahony", kp |-> Zero, ki |-> Zero, sampleFreq |-> f] :
        f \in {F(100, 1)}}

Construct(c) ==
    IF c.kind = "NewMahony" THEN NewMahony(c.kp, c.ki, c.sampleFreq)
    ELSE NewDefaultMahony(c.sampleFreq)

NoCall ==
    [op |-> "none", id |-> 0, g |-> ZeroVec, a |-> ZeroVec, mag |-> ZeroVec,
     ret |-> <<Zero, Zero, Zero, Zero>>, corrected |-> FALSE,
     halfe |-> ZeroVec, fb |-> ZeroVec]

InitOn(ids, cs) ==
    /\ ctor \in [ids -> cs]
    /\ filters = [i \in ids |-> Construct(ctor[i])]
    /\ last = NoCall
    /\ calls = 0
    /\ hist = [i \in ids |-> <<>>]

Init == InitOn({1}, Ctors)

\* Update6D on state shared by all instances (package-level variables in place
\* of the fields of the receiver)
Call6D_SharedState(i, g, a) ==
    /\ calls < MaxCalls
    /\ LET r == Update6D(filters[i], g, a)
       IN  /\ filters' = [j \in DOMAIN filters |->
                             [filters[j] EXCEPT !.Quaternions = r.m.Quaternions]]
           /\ last' = [op |-> "Update6D", id |-> i, g |-> g, a |-> a, mag |-> ZeroVec,
                       ret |-> r.ret, corrected |-> r.corrected,
                       halfe |-> r.halfe, fb |-> r.fb]
    /\ calls' = calls + 1
    /\ UNCHANGED ctor

\* m.Update6D(gx, gy, gz, ax, ay, az) on instance i
Call6D(i, g, a) ==
    /\ calls < MaxCalls
    /\ LET r == Update6D(filters[i], g, a)
       IN  /\ filters' = [filters EXCEPT ![i] = r.m]
           /\ last' = [op |-> "Update6D", id |-> i, g |-> g, a |-> a, mag |-> ZeroVec,
                       ret |-> r.ret, corrected |-> r.corrected,
                       halfe |-> r.halfe, fb |-> r.fb]
    /\ calls' = calls + 1
    /\ UNCHANGED ctor

\* m.Update9D(gx, gy, gz, ax, ay, az, mx, my, mz) on instance i
Call9D(i, g, a, mag) ==
    /\ calls < MaxCalls
    /\ LET r == Update9D(filters[i], g, a, mag)
       IN  /\ filters' = [filters EXCEPT ![i] = r.m]
           /\ last' = [op |-> "Update9D", id |-> i, g |-> g, a |-> a, mag |-> mag,
                       ret |-> r.ret, corrected |-> r.corrected,
                       halfe |-> r.halfe, fb |-> r.fb]
    /\ calls' = calls + 1
    /\ UNCHANGED ctor

Next ==
    \/ \E i \in DOMAIN filters, g \in GyroSet, a \in AccSet :
          Call6D(i, g, a) /\ UNCHANGED hist
    \/ \E i \in DOMAIN filters, g \in GyroSet, a \in AccSet, mag \in MagSet :
          Call9D(i, g, a, mag) /\ UNCHANGED hist

Spec == Init /\ [][Next]_vars

\* Two instances side by side: the first made by NewMahony, the second by
\* NewDefaultMahony, each fed its own sequence of calls, which hist records.
PairCtors ==
    {c \in Ctors : c.sampleFreq = F(100, 1) \/ (c.ki = F(5, 10) /\ c.sampleFreq = One)}

PairGyroSet == {ZeroVec, <<Zero, Zero, One>>}

PairAccSet == {ZeroVec, <<Zero, One, Zero>>}

PairMagSet == {<<One, Zero, Zero>>}

InitPair ==
    /\ InitOn({1, 2}, PairCtors)
    /\ ctor[1].kind = "NewMahony"
    /\ ctor[2].kind = "NewDefaultMahony"

\* the call just made on instance i, appended to its history
Record(i) ==
    hist' = [hist EXCEPT ![i] = Append(@, [op |-> last'.op, g |-> last'.g, a |-> last'.a,
                                           mag |-> last'.mag, ret |-> last'.ret])]

NextPair ==
    \/ \E i \in DOMAIN filters, g \in PairGyroSet, a \in PairAccSet :
          Call6D(i, g, a) /\ Record(i)
    \/ \E i \in DOMAIN filters, g \in PairGyroSet, a \in PairAccSet, mag \in PairMagSet :
          Call9D(i, g, a, mag) /\ Record(i)

SpecPair == InitPair /\ [][NextPair]_vars

\* --------------------------------------------------------------- claims --

Ids == DOMAIN filters

\* the step is an update call on instance i
CalledOn(i) == calls' = calls + 1 /\ last'.id = i

Quat(i) == filters[i].Quaternions

Accumulator(m) == <<m.integralFBx, m.integralFBy, m.integralFBz>>

Identity == <<One, Zero, Zero, Zero>>

AllFinite(v) == \A k \in DOMAIN v : IsFinite(v[k])

HasNaN(v) == \E k \in DOMAIN v : IsNaN(v[k])

AllNaN(v) == \A k \in DOMAIN v : IsNaN(v[k])

\* the tolerance of the unit norm and of a fixed point, a few roundings wide
NormTol == F(4, 1000)

FixTol == F(2, 1000)

\* q0^2 + q1^2 + q2^2 + q3^2 = 1 within NormTol (the squares taken exactly)
UnitNorm(q) ==
    /\ AllFinite(q)
    /\ Abs(q[1] * q[1] + q[2] * q[2] + q[3] * q[3] + q[4] * q[4] - SCALE * SCALE)
          <= NormTol * SCALE

PositiveFreq(m) == IsFinite(m.SampleFreq) /\ m.SampleFreq > 0

\* C1 (as claimed): with integral gain > 0, every update call that takes the
\* feedback branch adds twoKi * half_e / sampleFreq to the accumulator of the
\* instance, so that the accumulator carries over to the next call.
C1_AccumulatorCarriesOver ==
    [][\A i \in Ids :
          (/\ CalledOn(i)
           /\ last'.corrected
           /\ AllFinite(last'.halfe)
           /\ PositiveFreq(filters[i])
           /\ FGt(filters[i].twoKi, Zero))
          => Accumulator(filters'[i]) =
                [k \in 1..3 |->
                    Add(Accumulator(filters[i])[k],
                        Mul(Mul(filters[i].twoKi, last'.halfe[k]),
                            Div(One, filters[i].SampleFreq)))]]_vars

\* the readings of the call are finite and not degenerate: a non-zero
\* magnetometer reading whenever the accelerometer reading is non-zero
GoodInputs(c) ==
    /\ AllFinite(c.g) /\ AllFinite(c.a) /\ AllFinite(c.mag)
    /\ (c.op = "Update9D" /\ c.a # ZeroVec) => c.mag # ZeroVec

\* C2 (as claimed): with sampleFreq > 0, an update with finite, non-degenerate
\* inputs takes a unit quaternion to a unit quaternion (within NormTol).
C2_UnitNormPreserved ==
    [][\A i \in Ids :
          (/\ CalledOn(i)
           /\ PositiveFreq(filters[i])
           /\ UnitNorm(Quat(i))
           /\ GoodInputs(last'))
          => UnitNorm(filters'[i].Quaternions)]_vars

\* C2, restricted to ordinary magnitudes (a check of the tolerance only)
OrdinaryInputs(c) ==
    /\ GoodInputs(c)
    /\ \A k \in 1..3 : Abs(c.g[k]) <= F(10, 1)
    /\ c.a # ZeroVec => \E k \in 1..3 : Abs(c.a[k]) >= F(1, 10)

UnitNormOrdinary ==
    [][\A i \in Ids :
          (/\ CalledOn(i)
           /\ PositiveFreq(filters[i])
           /\ UnitNorm(Quat(i))
           /\ OrdinaryInputs(last'))
          => UnitNorm(filters'[i].Quaternions)]_vars

\* C3: a filter constructed by NewMahony with ki = 0 has the accumulator
\* (0,0,0) after any sequence of Update6D and Update9D calls.
C3_NoWindup ==
    \A i \in Ids :
        (ctor[i].kind = "NewMahony" /\ ctor[i].ki = Zero)
        => Accumulator(filters[i]) = ZeroVec

\* C3 witness: a ki = 0 filter after a call that took the feedback branch with
\* a non-zero error term
C3_Witness ==
    \E i \in Ids :
        /\ ctor[i].kind = "NewMahony" /\ ctor[i].ki = Zero
        /\ last.id = i /\ last.corrected
        /\ AllFinite(last.halfe) /\ last.halfe # ZeroVec

\* The pure gyro integration of the quaternion q: q + q (x) (0, g) with the
\* rates pre-multiplied by 0.5 * (1 / sampleFreq), every product taken from
\* the components of q before the update, then scaled to unit length.
GyroOnly(q, g, sampleFreq) ==
    LET c == Mul(Half, Div(One, sampleFreq))
        w == <<Mul(g[1], c), Mul(g[2], c), Mul(g[3], c)>>
        p == <<Add(q[1], Sub(Sub(Neg(Mul(q[2], w[1])), Mul(q[3], w[2])), Mul(q[4], w[3]))),
               Add(q[2], Sub(Add(Mul(q[1], w[1]), Mul(q[3], w[3])), Mul(q[4], w[2]))),
               Add(q[3], Add(Sub(Mul(q[1], w[2]), Mul(q[2], w[3])), Mul(q[4], w[1]))),
               Add(q[4], Sub(Add(Mul(q[1], w[3]), Mul(q[2], w[2])), Mul(q[3], w[1])))>>
        n == Div(One, Sqrt(Add(Add(Add(Mul(p[1], p[1]), Mul(p[2], p[2])),
                                   Mul(p[3], p[3])), Mul(p[4], p[4]))))
    IN  [k \in 1..4 |-> Mul(p[k], n)]

\* C4: an update whose accelerometer reading is exactly (0,0,0) stores the pure
\* gyro integration of the old quaternion, leaves the accumulator unchanged,
\* and Update9D does what Update6D does, whatever the magnetometer reading.
C4_DegenerateSkip ==
    [][\A i \in Ids :
          (CalledOn(i) /\ last'.a = ZeroVec)
          => /\ filters'[i].Quaternions =
                   GyroOnly(Quat(i), last'.g, filters[i].SampleFreq)
             /\ Accumulator(filters'[i]) = Accumulator(filters[i])
             /\ ~last'.corrected
             /\ last'.op = "Update9D"
                   => /\ filters'[i] = Update6D(filters[i], last'.g, last'.a).m
                      /\ last'.ret = Update6D(filters[i], last'.g, last'.a).ret]_vars

\* C4 witness: a zero-accelerometer Update9D with a non-zero magnetometer
\* reading and a non-zero gyro rate has turned a quaternion that was no longer
\* the identity
C4_Witness ==
    /\ calls >= 2
    /\ last.op = "Update9D" /\ last.a = ZeroVec /\ last.mag # ZeroVec
    /\ last.g = <<Zero, Zero, One>>
    /\ UnitNorm(last.ret) /\ last.ret[4] > F(5, 10)

\* the measured direction of gravity is the one the quaternion q predicts and
\* not its opposite: the reading a has a positive component along the estimate
\* half_v = (q1q3 - q0q2, q0q1 + q2q3, q0^2 - 0.5 + q3^2)
SameSense(q, a) ==
    LET halfv == <<Sub(Mul(q[2], q[4]), Mul(q[1], q[3])),
                   Add(Mul(q[1], q[2]), Mul(q[3], q[4])),
                   Add(Sub(Mul(q[1], q[1]), Half), Mul(q[4], q[4]))>>
    IN  FGt(Add(Add(Mul(a[1], halfv[1]), Mul(a[2], halfv[2])), Mul(a[3], halfv[3])), Zero)

\* the precondition of the fixed point: zero gyro rate, the feedback branch
\* taken, and a zero error term from a reading along the predicted direction
AtFixedPoint(i) ==
    /\ CalledOn(i)
    /\ PositiveFreq(filters[i])
    /\ last'.g = ZeroVec
    /\ last'.corrected
    /\ last'.halfe = ZeroVec
    /\ SameSense(Quat(i), last'.a)

Healthy(m) == PositiveFreq(m) /\ AllFinite(m.Quaternions) /\ m.Quaternions # <<Zero, Zero, Zero, Zero>>

\* C6: in Update9D only the accelerometer zero-check gates the feedback: with
\* a non-zero accelerometer reading and the magnetometer reading (0,0,0) the
\* branch is taken and the quaternion stored and returned is NaN; with the
\* accelerometer reading (0,0,0) the same magnetometer reading and finite
\* rates leave a healthy filter with a finite quaternion.
C6_OnlyAccelGates ==
    [][\A i \in Ids :
          (CalledOn(i) /\ last'.op = "Update9D" /\ last'.mag = ZeroVec)
          => /\ (AllFinite(last'.a) /\ last'.a # ZeroVec)
                   => /\ last'.corrected
                      /\ AllNaN(filters'[i].Quaternions)
                      /\ AllNaN(last'.ret)
             /\ (last'.a = ZeroVec /\ Healthy(filters[i]) /\ AllFinite(last'.g))
                   => /\ ~last'.corrected
                      /\ AllFinite(filters'[i].Quaternions)
                      /\ AllFinite(last'.ret)]_vars

\* C6 witness: a healthy filter corrupted by one Update9D with readings that
\* are finite, the accelerometer's ordinary, the magnetometer's zero
C6_Witness ==
    \E i \in Ids :
        /\ last.id = i /\ last.op = "Update9D"
        /\ last.mag = ZeroVec /\ last.a = <<Zero, Zero, F(98, 10)>> /\ last.g = ZeroVec
        /\ calls = 1
        /\ PositiveFreq(filters[i])
        /\ AllNaN(Quat(i))

\* C7: an update call on one instance leaves every other instance as it was:
\* its quaternion, its accumulator and its configuration.
C7_InstanceIndependence ==
    [][\A i \in Ids : (calls' = calls + 1 /\ last'.id # i) => filters'[i] = filters[i]]_vars

\* C7 witness: two instances, both called, calls interleaved, one moved by its
\* call and the other still where its own call left it
C7_Witness ==
    /\ Cardinality(Ids) = 2
    /\ \A i \in Ids : Len(hist[i]) >= 1
    /\ \E i \in Ids : Quat(i) # Identity /\ last.id # i /\ Quat(i) = hist[i][Len(hist[i])].ret

\* the inputs of a history, without the values returned
Inputs(h) == [k \in DOMAIN h |-> [op |-> h[k].op, g |-> h[k].g, a |-> h[k].a, mag |-> h[k].mag]]

\* C8: NewMahony(kp, ki, f) yields the identity quaternion, a zero accumulator,
\* twoKp = 2*kp, twoKi = 2*ki and sample frequency f; NewDefaultMahony(f)
\* yields the state of NewMahony(0.2, 0.1, f), and the two return the same
\* quaternions and hold the same state after the same sequence of updates.
C8_Construction ==
    /\ \A i \in Ids :
          hist[i] = <<>> /\ last.id # i
          => /\ Quat(i) = Identity
             /\ Accumulator(filters[i]) = ZeroVec
             /\ filters[i].SampleFreq = ctor[i].sampleFreq
             /\ ctor[i].kind = "NewMahony"
                   => /\ filters[i].twoKp = Mul(Two, ctor[i].kp)
                      /\ filters[i].twoKi = Mul(Two, ctor[i].ki)
             /\ ctor[i].kind = "NewDefaultMahony"
                   => /\ filters[i].twoKp = Mul(Two, F(2, 10))
                      /\ filters[i].twoKi = Mul(Two, F(1, 10))
    /\ \A i, j \in Ids :
          (/\ ctor[i].kind = "NewMahony"
           /\ ctor[i].kp = F(2, 10) /\ ctor[i].ki = F(1, 10)
           /\ ctor[j].kind = "NewDefaultMahony"
           /\ ctor[j].sampleFreq = ctor[i].sampleFreq
           /\ Inputs(hist[i]) = Inputs(hist[j]))
          => filters[i] = filters[j] /\ hist[i] = hist[j]

\* C8 witness: a NewMahony(0.2, 0.1, f) filter and a NewDefaultMahony(f) filter
\* after the same update, which moved them
C8_Witness ==
    \E i, j \in Ids :
        /\ ctor[i].kind = "NewMahony" /\ ctor[i].kp = F(2, 10) /\ ctor[i].ki = F(1, 10)
        /\ ctor[j].kind = "NewDefaultMahony" /\ ctor[j].sampleFreq = ctor[i].sampleFreq
        /\ Len(hist[i]) >= 1 /\ Inputs(hist[i]) = Inputs(hist[j])
        /\ Quat(j) # Identity

\* C9: an update call leaves twoKp, twoKi and SampleFreq of its instance
\* unchanged, on every path, and returns the quaternion it stored.
C9_ConfigurationFrame ==
    [][\A i \in Ids :
          CalledOn(i)
          => /\ filters'[i].twoKp = filters[i].twoKp
             /\ filters'[i].twoKi = filters[i].twoKi
             /\ filters'[i].SampleFreq = filters[i].SampleFreq
             /\ last'.ret = filters'[i].Quaternions]_vars

\* C9 witness: a call with the integral gain enabled that took the feedback
\* branch and moved the quaternion, after a call that skipped it
C9_Witness ==
    \E i \in Ids :
        /\ calls >= 2 /\ last.id = i /\ last.corrected
        /\ FGt(filters[i].twoKi, Zero)
        /\ UnitNorm(last.ret) /\ last.ret # Identity
        /\ last.halfe # ZeroVec

\* C10: once the stored quaternion has a NaN component, every later update
\* call on the instance leaves all four components NaN.
C10_CorruptionAbsorbing ==
    [][\A i \in Ids :
          (CalledOn(i) /\ HasNaN(Quat(i))) => AllNaN(filters'[i].Quaternions)]_vars

\* C10 witness: a filter with sample frequency 0, NaN after its first call,
\* still NaN after a second call with a zero accelerometer reading
C10_Witness ==
    \E i \in Ids :
        /\ calls >= 2 /\ last.id = i
        /\ filters[i].SampleFreq = Zero
        /\ last.a = ZeroVec /\ last.g = ZeroVec
        /\ AllNaN(Quat(i))

====
